---------------------------- MODULE Spec2Model ----------------------------
(***************************************************************************)
(* compactImg: the Upload Handler (src/app/api/upload/route.ts), the       *)
(* Process Handler (src/unnamed/part_000, lines 1-128) and the client      *)
(* (UploadZone and Home in src/unnamed/part_001, ImageCard in              *)
(* src/unnamed/part_000, lines 130-294) as state machines.                 *)
(*                                                                         *)
(* Representation of JavaScript values:                                    *)
(*   - an object is a function whose domain is the set of its keys, so a   *)
(*     missing (undefined) property is a key outside the domain and        *)
(*     { ...a, ...b } is Spread(a, b);                                     *)
(*   - a template string is the tuple of its pieces, so "" is << >>;       *)
(*   - a MIME type "image/png" is the tuple of its '/'-separated parts     *)
(*     <<"image", "png">>, a file name "photo.jpg" the tuple of its        *)
(*     '.'-separated parts <<"photo", "jpg">>.                             *)
(***************************************************************************)
EXTENDS Integers, Sequences, FiniteSets, TLC

VARIABLES
    \* ---- Upload Handler: one invocation of POST /api/upload
    upPc,               \* "idle" | "loop" | "put" | "done"
    upFiles,            \* formData.getAll('files')
    upIdx,              \* position of the for-of loop (1-based)
    uploadedFilesInfo,  \* route.ts:25
    errors,             \* route.ts:26
    upBlobPath,         \* blobPath of the file whose put is awaited
    nanoidCount,        \* how many ids nanoid() has handed out
    uploadPuts,         \* the put calls issued to the blob store, in order
    upResponse,         \* the NextResponse returned
    \* ---- Process Handler: one invocation of POST /api/process
    proc,               \* the invocation's locals and response
    now,                \* Date.now()
    fetches,            \* the fetch calls issued, in order, each with its result
    encodes,            \* the encoder pipelines run (toBuffer), in order
    processPuts,        \* the put calls issued for processed artifacts
    \* ---- Client: the Home component and its UploadZone
    files,              \* part_001:110, the file list
    isProcessingAny,    \* part_001:112, the advisory flag
    pageError,          \* part_001:111, errorMessage of the page (<< >> is null)
    crashed,            \* a state updater threw while rendering: the page is gone
    zone,               \* onDrop: "idle" | "waiting" (for the upload response)
    lastUploaded,       \* the argument of the last handleFilesUploaded call
    requests,           \* how many times handleProcessImage was called
    calls               \* the handleProcessImage calls awaiting fetch, in order

upVars == <<upPc, upFiles, upIdx, uploadedFilesInfo, errors, upBlobPath,
            nanoidCount, uploadPuts, upResponse>>
procVars == <<proc, now, fetches, encodes, processPuts>>
clientVars == <<files, isProcessingAny, pageError, crashed, zone, lastUploaded,
                requests, calls>>
vars == <<upVars, procVars, clientVars>>

(***************************************************************************)
(* Bounds of the model.                                                    *)
(***************************************************************************)
MaxFiles == 2        \* files per upload request
MaxTick == 1         \* milliseconds the clock may advance per await
QualitySlack == 20   \* how far outside 0..100 a requested quality may lie
MaxRecords == 2      \* records in the client's file list, and files the UploadZone sends
MaxCalls == 2        \* calls of handleProcessImage
MaxSent == 3         \* files the UploadZone sends where a drop follows a request

(***************************************************************************)
(* JavaScript helpers.                                                     *)
(***************************************************************************)
\* { ...a, ...b }
Spread(a, b) == b @@ a

\* the object a without key k (a property set to undefined is dropped by JSON)
Without(a, ks) == [k \in (DOMAIN a) \ ks |-> a[k]]

EmptyObject == [k \in {} |-> 0]

Last(s) == s[Len(s)]

Max(a, b) == IF a >= b THEN a ELSE b
Min(a, b) == IF a <= b THEN a ELSE b

(***************************************************************************)
(* Upload Handler                                                          *)
(***************************************************************************)
MAX_FILE_SIZE_MB == 10
MAX_FILE_SIZE_BYTES == MAX_FILE_SIZE_MB * 1024 * 1024

ALLOWED_MIME_TYPES ==
    {<<"image", "jpeg">>, <<"image", "png">>, <<"image", "webp">>, <<"image", "avif">>}

\* The files a request may carry: declared type, size and name.
FileTypes == ALLOWED_MIME_TYPES \cup {<<"image", "gif">>}
FileSizes == {2097152, MAX_FILE_SIZE_BYTES, MAX_FILE_SIZE_BYTES + 1}
FileNames == {<<"photo", "jpg">>, <<"scan">>}
Files == [name : FileNames, type : FileTypes, size : FileSizes]

RECURSIVE SeqsUpTo(_, _)
SeqsUpTo(S, n) ==
    IF n = 0 THEN {<< >>}
    ELSE LET shorter == SeqsUpTo(S, n - 1)
         IN  shorter \cup {Append(s, x) : s \in {t \in shorter : Len(t) = n - 1}, x \in S}

\* (file.size / 1024 / 1024).toFixed(2), in hundredths of a megabyte
ToFixed2MB(size) == (size * 100 + 524288) \div 1048576

\* route.ts:30-38: the reason a file is rejected for, or "ok"
MutValidateFile_NoSizeCheck(file) ==
    IF file.type \notin ALLOWED_MIME_TYPES THEN "type" ELSE "ok"
ValidateFile(file) ==
    IF file.type \notin ALLOWED_MIME_TYPES THEN "type"
    ELSE IF file.size > MAX_FILE_SIZE_BYTES THEN "size"
    ELSE "ok"

\* route.ts:31, 36, 69: the error strings
ValidationError(file, why) ==
    IF why = "type"
    THEN [kind |-> "Unsupported file type", name |-> file.name, type |-> file.type]
    ELSE [kind |-> "File too large", name |-> file.name, mb100 |-> ToFixed2MB(file.size)]
UploadFailedError(file) == [kind |-> "Failed to upload", name |-> file.name]

\* route.ts:41: nanoid() hands out an id it has not handed out before
MutNanoid_Constant(count) == 1
Nanoid(count) == count + 1

\* route.ts:43: file.name.includes('.') ? file.name.split('.').pop() : 'bin'
FileExtension(name) == IF Len(name) > 1 THEN Last(name) ELSE "bin"

\* route.ts:44: `uploads/${uniqueId}.${fileExtension}`
BlobPath(uniqueId, name) == <<"uploads/", uniqueId, ".", FileExtension(name)>>

\* route.ts:47-52: the arguments of put
UploadPutCall(blobPath, file) ==
    [path |-> blobPath, file |-> file, access |-> "public",
     contentType |-> file.type, cacheControl |-> "public, max-age=3600"]

\* what the blob store answers a put with: the pathname stored under and its URL
BlobUrl(pathname) == <<"https://blob.store/", pathname>>
PutResult(path) == [pathname |-> path, url |-> BlobUrl(path)]

\* route.ts:55-64
ImageFileInfo(blob, file) ==
    [id |-> blob.pathname, originalName |-> file.name, originalSize |-> file.size,
     originalFormat |-> file.type, status |-> "uploaded", metadata |-> EmptyObject,
     blobUrl |-> blob.url]

NoResponse == [status |-> 0]

\* route.ts:73-87 (and 21-23): the response for the lists collected
MutUploadResponse_No207(formFiles, uploaded, errs) ==
    IF Len(formFiles) = 0
    THEN [status |-> 400, body |-> [error |-> <<"No formFiles provided.">>]]
    ELSE IF Len(uploaded) = 0 /\ Len(errs) > 0
    THEN [status |-> 400, body |-> [error |-> <<"Upload failed. Errors: ", errs>>]]
    ELSE [status |-> 200, body |-> [array |-> uploaded]]
UploadResponse(formFiles, uploaded, errs) ==
    IF Len(formFiles) = 0
    THEN [status |-> 400, body |-> [error |-> <<"No formFiles provided.">>]]
    ELSE IF Len(uploaded) = 0 /\ Len(errs) > 0
    THEN [status |-> 400, body |-> [error |-> <<"Upload failed. Errors: ", errs>>]]
    ELSE IF Len(errs) > 0
    THEN [status |-> 207, body |-> [uploadedFiles |-> uploaded, uploadErrors |-> errs]]
    ELSE [status |-> 200, body |-> [array |-> uploaded]]

\* route.ts:65: uploadedFilesInfo.push(imageFileInfo)
MutPushRecord_Unshift(list, info) == <<info>> \o list
PushRecord(list, info) == Append(list, info)

UploadInit ==
    /\ upPc = "idle"
    /\ upFiles = << >>
    /\ upIdx = 1
    /\ uploadedFilesInfo = << >>
    /\ errors = << >>
    /\ upBlobPath = << >>
    /\ nanoidCount = 0
    /\ uploadPuts = << >>
    /\ upResponse = NoResponse

\* route.ts:17-26: the request arrives; an empty file list is answered at once
UploadPOST ==
    /\ UNCHANGED <<procVars, clientVars>>
    /\ upPc = "idle"
    /\ \E formFiles \in SeqsUpTo(Files, MaxFiles) :
         /\ upFiles' = formFiles
         /\ IF Len(formFiles) = 0
            THEN /\ upResponse' = UploadResponse(formFiles, << >>, << >>)
                 /\ upPc' = "done"
            ELSE /\ upResponse' = upResponse
                 /\ upPc' = "loop"
    /\ UNCHANGED <<upIdx, uploadedFilesInfo, errors, upBlobPath, nanoidCount, uploadPuts>>

\* route.ts:28-47: one iteration up to the put call: the file is rejected, or its
\* put is issued
UploadValidate ==
    /\ UNCHANGED <<procVars, clientVars>>
    /\ upPc = "loop"
    /\ upIdx <= Len(upFiles)
    /\ LET file == upFiles[upIdx]
           why == ValidateFile(file)
           uniqueId == Nanoid(nanoidCount)
           blobPath == BlobPath(uniqueId, file.name)
       IN  IF why # "ok"
           THEN /\ errors' = Append(errors, ValidationError(file, why))
                /\ upIdx' = upIdx + 1
                /\ UNCHANGED <<upPc, upBlobPath, nanoidCount, uploadPuts>>
           ELSE /\ nanoidCount' = uniqueId
                /\ upBlobPath' = blobPath
                /\ uploadPuts' = Append(uploadPuts, UploadPutCall(blobPath, file))
                /\ upPc' = "put"
                /\ UNCHANGED <<errors, upIdx>>
    /\ UNCHANGED <<upFiles, uploadedFilesInfo, upResponse>>

\* route.ts:47-65: the put resolves
UploadPutOk ==
    /\ UNCHANGED <<procVars, clientVars>>
    /\ upPc = "put"
    /\ uploadedFilesInfo' =
           PushRecord(uploadedFilesInfo, ImageFileInfo(PutResult(upBlobPath), upFiles[upIdx]))
    /\ upIdx' = upIdx + 1
    /\ upPc' = "loop"
    /\ UNCHANGED <<upFiles, errors, upBlobPath, nanoidCount, uploadPuts, upResponse>>

\* route.ts:67-70: the put throws
UploadPutFail ==
    /\ UNCHANGED <<procVars, clientVars>>
    /\ upPc = "put"
    /\ errors' = Append(errors, UploadFailedError(upFiles[upIdx]))
    /\ upIdx' = upIdx + 1
    /\ upPc' = "loop"
    /\ UNCHANGED <<upFiles, uploadedFilesInfo, upBlobPath, nanoidCount, uploadPuts, upResponse>>

\* route.ts:73-87: the loop is over
UploadRespond ==
    /\ UNCHANGED <<procVars, clientVars>>
    /\ upPc = "loop"
    /\ upIdx > Len(upFiles)
    /\ upResponse' = UploadResponse(upFiles, uploadedFilesInfo, errors)
    /\ upPc' = "done"
    /\ UNCHANGED <<upFiles, upIdx, uploadedFilesInfo, errors, upBlobPath, nanoidCount,
                   uploadPuts>>

(***************************************************************************)
(* Process Handler                                                         *)
(***************************************************************************)
MVP_PROCESS_FORMATS == {"jpeg", "png"}

\* The records a process request may carry: what the Upload Handler returned for
\* a file, as it is (status 'uploaded'), as the client holds it after a failed
\* attempt, or with what earlier runs left in it (metadata, and the results of a
\* run that completed before a later one failed); and the same record with the
\* storage reference missing or empty.
ProcessFileSizes == {0, 1000, 3000}
UploadedRecords ==
    {ImageFileInfo(PutResult(BlobPath(1, f.name)), f) :
        f \in [name : {<<"photo", "jpg">>}, type : ALLOWED_MIME_TYPES, size : ProcessFileSizes]}
RetriedRecords ==
    {Spread(r, [status |-> "failed", errorMessage |-> <<"Processing failed">>]) :
        r \in UploadedRecords}
ReprocessedRecords ==
    {Spread(r, [status |-> "failed", errorMessage |-> <<"Processing failed">>,
                metadata |-> [title |-> "Old", author |-> "Ann"],
                compressedSize |-> 400,
                compressionRatio |-> [num |-> 0, den |-> 1],
                downloadUrl |-> BlobUrl(<<"processed/", r.id, ".", "jpeg">>)]) :
        r \in UploadedRecords}
GoodRecords == UploadedRecords \cup RetriedRecords \cup ReprocessedRecords
NoReferenceRecords ==
    {Without(r, {"blobUrl"}) : r \in UploadedRecords}
        \cup {Spread(r, [blobUrl |-> << >>]) : r \in UploadedRecords}

\* The settings a process request may carry.
Qualities == {0 - QualitySlack, 0, 60, 65, 70, 80, 100, 100 + QualitySlack}
TargetFormats == {"jpeg", "png", "webp", "avif", "original"}
RequestMetadata ==
    {EmptyObject, [title |-> "Sunset"], [title |-> "", description |-> "Dusk"],
     [title |-> "Sunset", description |-> "Dusk"]}
GoodSettings == [quality : Qualities, targetFormat : TargetFormats, metadata : RequestMetadata]
NoMetadataSettings == {[quality |-> 80, targetFormat |-> t] : t \in {"jpeg", "webp"}}

\* The JSON bodies of the requests: complete ones, and ones that lack the record,
\* the settings or the record's storage reference.
ProcessRequests ==
    {[imageFile |-> r, settings |-> t] : r \in GoodRecords, t \in GoodSettings \cup NoMetadataSettings}
        \cup {[imageFile |-> r, settings |-> t] :
                 r \in NoReferenceRecords, t \in {x \in GoodSettings : x.quality = 80}}
        \cup {[imageFile |-> r] : r \in UploadedRecords}
        \cup {[settings |-> t] : t \in {x \in GoodSettings : x.quality = 80}}
        \cup {EmptyObject}

\* What the collaborators may throw: an Error with its message, or some other value.
NotAnError == [isError |-> FALSE]
ErrorOf(message) == [isError |-> TRUE, message |-> message]
FetchFailures ==
    {ErrorOf(<<"Failed to fetch blob: ", "Not Found">>),  \* part_000:12-14
     ErrorOf(<<"fetch failed">>)}                         \* fetch itself rejects
EncodeFailures == {ErrorOf(<<"Input buffer contains unsupported image format">>), NotAnError}
PutFailures == {ErrorOf(<<"Vercel Blob: access denied">>), NotAnError}
\* processedBuffer.byteLength
BufferSizes == {0, 400, 1500}

\* part_000:21: !imageFile || !settings || !imageFile.blobUrl
MutMissingInput_NoSettingsCheck(body) ==
    \/ "imageFile" \notin DOMAIN body
    \/ "blobUrl" \notin DOMAIN body.imageFile
    \/ Len(body.imageFile.blobUrl) = 0
MissingInput(body) ==
    \/ "imageFile" \notin DOMAIN body
    \/ "settings" \notin DOMAIN body
    \/ "blobUrl" \notin DOMAIN body.imageFile
    \/ Len(body.imageFile.blobUrl) = 0

\* part_000:41-43: the subtype of the original MIME type for 'original', else the
\* requested format
MutEffectiveFormat_AlwaysOriginal(imageFile, settings) == imageFile.originalFormat[2]
EffectiveFormat(imageFile, settings) ==
    IF settings.targetFormat = "original"
    THEN imageFile.originalFormat[2]
    ELSE settings.targetFormat

\* part_000:45: MVP_PROCESS_FORMATS.includes(targetFormat)
MutSupportedFormat_Webp(targetFormat) == targetFormat \in MVP_PROCESS_FORMATS \cup {"webp"}
SupportedFormat(targetFormat) == targetFormat \in MVP_PROCESS_FORMATS

\* part_000:46
UnsupportedFormatError(targetFormat) ==
    ErrorOf(<<"Unsupported target format for MVP: ", targetFormat,
              ". Only jpeg and png are supported initially.">>)

\* Math.round(n / 10): the nearest integer, a half rounded up
RoundTenth(n) == (n + 5) \div 10

\* part_000:54
MutPngCompressionLevel_Floor(quality) == Max(0, Min(9, (100 - quality) \div 10))
PngCompressionLevel(quality) == Max(0, Min(9, RoundTenth(100 - quality)))

\* part_000:50-56: the encoder and its options
EncoderOptions(targetFormat, settings) ==
    IF targetFormat = "jpeg"
    THEN [format |-> "jpeg", quality |-> settings.quality]
    ELSE [format |-> "png", compressionLevel |-> PngCompressionLevel(settings.quality)]

\* a string property that is present and not empty
Truthy(object, key) == key \in DOMAIN object /\ object[key] # ""

\* part_000:60-71: the EXIF IFD0 tags to embed
MetadataToEmbed(metadata) ==
    Spread(IF Truthy(metadata, "title")
           THEN [ImageDescription |-> metadata.title] ELSE EmptyObject,
           IF Truthy(metadata, "description")
           THEN [UserComment |-> metadata.description] ELSE EmptyObject)

\* part_000:81-85: title and description come from the request (a value that is
\* undefined there leaves no key in the JSON of the response), the rest is kept
MutUpdatedMetadata_RecordWins(imageFile, settings) ==
    Spread([k \in (DOMAIN settings.metadata) \cap {"title", "description"} |->
               settings.metadata[k]],
           imageFile.metadata)
UpdatedMetadata(imageFile, settings) ==
    Spread(Without(imageFile.metadata, {"title", "description"}),
           [k \in (DOMAIN settings.metadata) \cap {"title", "description"} |->
               settings.metadata[k]])

\* part_000:91-96: the arguments of put
ProcessPutCall(imageFile, targetFormat, byteLength) ==
    [path |-> <<"processed/", imageFile.id, ".", targetFormat>>,
     byteLength |-> byteLength, access |-> "public",
     contentType |-> <<"image", targetFormat>>, cacheControlMaxAge |-> 3600]

RECURSIVE GCD(_, _)
GCD(a, b) == IF b = 0 THEN a ELSE GCD(b, a % b)
Abs(a) == IF a < 0 THEN 0 - a ELSE a
\* the number n / d (d > 0) in lowest terms
Fraction(n, d) ==
    LET g == GCD(Abs(n), d) IN [num |-> n \div g, den |-> d \div g]

\* part_000:102-104: (1 - byteLength / originalSize) * 100, or 0
MutCompressionRatio_NonNegative(originalSize, byteLength) ==
    IF originalSize > 0 /\ byteLength <= originalSize
    THEN Fraction(100 * (originalSize - byteLength), originalSize)
    ELSE Fraction(0, 1)
CompressionRatio(originalSize, byteLength) ==
    IF originalSize > 0
    THEN Fraction(100 * (originalSize - byteLength), originalSize)
    ELSE Fraction(0, 1)

\* part_000:121: error instanceof Error ? error.message : 'Unknown processing error'
ErrorMessage(error) ==
    IF error.isError THEN error.message ELSE <<"Unknown processing error">>

\* part_000:10-16: fetch(url), and the call once it has answered
FetchCall(url) == [url |-> url, result |-> "pending"]
Answered(issued, result) == [issued EXCEPT ![Len(issued)].result = result]

IdleHandler ==
    [pc |-> "idle", body |-> EmptyObject, startTime |-> 0,
     updatedImageFile |-> EmptyObject, targetFormat |-> "", byteLength |-> 0,
     response |-> NoResponse]

\* part_000:18-26: the handler after the request is read
Started(body, time) ==
    IF MissingInput(body)
    THEN [IdleHandler EXCEPT
             !.pc = "done", !.body = body,
             !.response =
                 [status |-> 400,
                  body |-> [error |-> <<"Missing image file data, settings, or blob URL.">>]]]
    ELSE [IdleHandler EXCEPT !.pc = "fetch", !.body = body, !.startTime = time,
                             !.updatedImageFile = [status |-> "processing"]]

\* part_000:117-127: the catch branch
MutFailed_Status200(h, error, time) ==
    LET updated == Spread(h.updatedImageFile,
                          [status |-> "failed", errorMessage |-> ErrorMessage(error),
                           processingTimeMs |-> time - h.startTime])
    IN  [h EXCEPT !.pc = "done", !.updatedImageFile = updated,
                  !.response = [status |-> 200, body |-> Spread(h.body.imageFile, updated)]]
Failed(h, error, time) ==
    LET updated == Spread(h.updatedImageFile,
                          [status |-> "failed", errorMessage |-> ErrorMessage(error),
                           processingTimeMs |-> time - h.startTime])
    IN  [h EXCEPT !.pc = "done", !.updatedImageFile = updated,
                  !.response = [status |-> 500, body |-> Spread(h.body.imageFile, updated)]]

\* part_000:31-85: from the fetched buffer to the toBuffer call.  The sharp
\* constructor and the builder calls only record what to do; the image is
\* decoded and encoded by toBuffer.
Prepared(h, time) ==
    LET imageFile == h.body.imageFile
        settings == h.body.settings
        targetFormat == EffectiveFormat(imageFile, settings)
    IN  IF ~SupportedFormat(targetFormat)
        THEN Failed([h EXCEPT !.targetFormat = targetFormat],
                    UnsupportedFormatError(targetFormat), time)
        ELSE IF "metadata" \notin DOMAIN settings
        THEN Failed([h EXCEPT !.targetFormat = targetFormat],
                    ErrorOf(<<"Cannot read properties of undefined (reading 'title')">>),
                    time)
        ELSE [h EXCEPT !.pc = "encode", !.targetFormat = targetFormat,
                       !.updatedImageFile =
                           Spread(h.updatedImageFile,
                                  [metadata |-> UpdatedMetadata(imageFile, settings)])]

\* part_000:34-78: the pipeline handed to toBuffer
EncodeCall(h) ==
    [options |-> EncoderOptions(h.targetFormat, h.body.settings),
     exifIFD0 |-> MetadataToEmbed(h.body.settings.metadata)]

\* part_000:88-92: the buffer is there
Encoded(h, byteLength) == [h EXCEPT !.pc = "put", !.byteLength = byteLength]

\* part_000:98-115: the put resolved
MutCompleted_SizeOverwritten(h, processedBlob, time) ==
    LET imageFile == h.body.imageFile
        updated ==
            Spread(h.updatedImageFile,
                   [status |-> "completed",
                    originalSize |-> h.byteLength,
                    compressedSize |-> h.byteLength,
                    compressionRatio |-> CompressionRatio(imageFile.originalSize, h.byteLength),
                    downloadUrl |-> processedBlob.url,
                    processingTimeMs |-> time - h.startTime,
                    processingSettings |-> h.body.settings])
    IN  [h EXCEPT !.pc = "done", !.updatedImageFile = updated,
                  !.response = [status |-> 200, body |-> Spread(imageFile, updated)]]
Completed(h, processedBlob, time) ==
    LET imageFile == h.body.imageFile
        updated ==
            Spread(h.updatedImageFile,
                   [status |-> "completed",
                    compressedSize |-> h.byteLength,
                    compressionRatio |-> CompressionRatio(imageFile.originalSize, h.byteLength),
                    downloadUrl |-> processedBlob.url,
                    processingTimeMs |-> time - h.startTime,
                    processingSettings |-> h.body.settings])
    IN  [h EXCEPT !.pc = "done", !.updatedImageFile = updated,
                  !.response = [status |-> 200, body |-> Spread(imageFile, updated)]]

ProcessInit ==
    /\ proc = IdleHandler
    /\ now = 0
    /\ fetches = << >>
    /\ encodes = << >>
    /\ processPuts = << >>

\* part_000:18-30: the request arrives; it is refused, or the raw blob is fetched
ProcessPOST ==
    /\ UNCHANGED <<upVars, clientVars>>
    /\ proc.pc = "idle"
    /\ \E body \in ProcessRequests :
         /\ proc' = Started(body, now)
         /\ fetches' = IF proc'.pc = "fetch"
                       THEN Append(fetches, FetchCall(body.imageFile.blobUrl))
                       ELSE fetches
    /\ UNCHANGED <<now, encodes, processPuts>>

\* part_000:10-16, 30-88: the fetch answered ok; the pipeline is set up and run,
\* unless the format is not supported
ProcessFetchOk ==
    /\ UNCHANGED <<upVars, clientVars>>
    /\ proc.pc = "fetch"
    /\ \E tick \in 0..MaxTick :
         /\ now' = now + tick
         /\ proc' = Prepared(proc, now')
         /\ encodes' = IF proc'.pc = "encode"
                       THEN Append(encodes, EncodeCall(proc'))
                       ELSE encodes
    /\ fetches' = Answered(fetches, "ok")
    /\ UNCHANGED processPuts

\* part_000:10-16, 117-127: the fetch failed
ProcessFetchFail ==
    /\ UNCHANGED <<upVars, clientVars>>
    /\ proc.pc = "fetch"
    /\ \E tick \in 0..MaxTick, error \in FetchFailures :
         /\ now' = now + tick
         /\ proc' = Failed(proc, error, now')
    /\ fetches' = Answered(fetches, "failed")
    /\ UNCHANGED <<encodes, processPuts>>

\* part_000:88-96: toBuffer resolved; the processed artifact is put
ProcessEncodeOk ==
    /\ UNCHANGED <<upVars, clientVars>>
    /\ proc.pc = "encode"
    /\ \E tick \in 0..MaxTick, byteLength \in BufferSizes :
         /\ now' = now + tick
         /\ proc' = Encoded(proc, byteLength)
         /\ processPuts' =
                Append(processPuts,
                       ProcessPutCall(proc.body.imageFile, proc.targetFormat, byteLength))
    /\ UNCHANGED <<fetches, encodes>>

\* part_000:88, 117-127: toBuffer threw
ProcessEncodeFail ==
    /\ UNCHANGED <<upVars, clientVars>>
    /\ proc.pc = "encode"
    /\ \E tick \in 0..MaxTick, error \in EncodeFailures :
         /\ now' = now + tick
         /\ proc' = Failed(proc, error, now')
    /\ UNCHANGED <<fetches, encodes, processPuts>>

\* part_000:92-115: the put resolved
ProcessPutOk ==
    /\ UNCHANGED <<upVars, clientVars>>
    /\ proc.pc = "put"
    /\ \E tick \in 0..MaxTick :
         /\ now' = now + tick
         /\ proc' = Completed(proc, PutResult(Last(processPuts).path), now')
    /\ UNCHANGED <<fetches, encodes, processPuts>>

\* part_000:92, 117-127: the put threw
ProcessPutFail ==
    /\ UNCHANGED <<upVars, clientVars>>
    /\ proc.pc = "put"
    /\ \E tick \in 0..MaxTick, error \in PutFailures :
         /\ now' = now + tick
         /\ proc' = Failed(proc, error, now')
    /\ UNCHANGED <<fetches, encodes, processPuts>>

(***************************************************************************)
(* Client: UploadZone (part_001:1-100), Home (part_001:102-198) and        *)
(* ImageCard (part_000:130-294)                                            *)
(***************************************************************************)
\* part_001:25: 4.5 * 1024 * 1024
ZONE_MAX_BYTES == 4718592

\* The files a user may drop.
ZoneFiles ==
    {[name |-> <<"photo", "jpg">>, type |-> <<"image", "jpeg">>, size |-> 1000],
     [name |-> <<"photo", "webp">>, type |-> <<"image", "webp">>, size |-> 1000],
     [name |-> <<"anim", "gif">>, type |-> <<"image", "gif">>, size |-> 1000],
     [name |-> <<"large", "jpg">>, type |-> <<"image", "jpeg">>, size |-> ZONE_MAX_BYTES + 1]}

\* The records handleFilesUploaded may be called with: one for each reference.
IncomingRecords ==
    {ImageFileInfo(PutResult(BlobPath(n, f.name)), f) :
        n \in 1..MaxRecords,
        f \in {[name |-> <<"photo", "jpg">>, type |-> <<"image", "jpeg">>, size |-> 1000]}}

\* part_001:18-31: the files onDrop appends to the form
ZoneAccepts(file) ==
    /\ file.type \in {<<"image", "jpeg">>, <<"image", "png">>,
                      <<"image", "webp">>, <<"image", "avif">>}
    /\ file.size <= ZONE_MAX_BYTES
ZoneValid(acceptedFiles) == SelectSeq(acceptedFiles, ZoneAccepts)

\* part_001:14, 21, 26, 35: the page error onDrop leaves before it fetches
ZoneRejects(file) == ~ZoneAccepts(file)
ZoneError(acceptedFiles) ==
    LET rejected == SelectSeq(acceptedFiles, ZoneRejects)
    IN  IF Len(ZoneValid(acceptedFiles)) = 0 /\ Len(acceptedFiles) > 0
        THEN <<"No valid files selected or files exceed limits.">>
        ELSE IF Len(rejected) > 0
        THEN IF Last(rejected).type \notin {<<"image", "jpeg">>, <<"image", "png">>,
                                            <<"image", "webp">>, <<"image", "avif">>}
             THEN <<"Unsupported file type: ", Last(rejected).name>>
             ELSE <<"File too large: ", Last(rejected).name>>
        ELSE << >>

\* response.ok
ResponseOk(response) == response.status >= 200 /\ response.status <= 299

\* part_001:114-120: prevFiles followed by the uploaded records whose blobUrl
\* no record of prevFiles has
MutMergeUploaded_NoFilter(prevFiles, uploadedFiles) == prevFiles \o uploadedFiles
MergeUploaded(prevFiles, uploadedFiles) ==
    LET existingIds == {prevFiles[i].blobUrl : i \in 1..Len(prevFiles)}
        IsNew(f) == f.blobUrl \notin existingIds
    IN  prevFiles \o SelectSeq(uploadedFiles, IsNew)

\* part_001:124-128: updateFileState; the keys of `undefined` are those the
\* updates set to undefined
UpdateFileState(prevFiles, id, updates, undefined) ==
    [i \in 1..Len(prevFiles) |->
        IF prevFiles[i].id = id
        THEN Without(Spread(prevFiles[i], updates), undefined)
        ELSE prevFiles[i]]

\* part_001:161: some other file is still processing
MutStillProcessing_Never(currentFiles, id) == FALSE
StillProcessing(currentFiles, id) ==
    \E i \in 1..Len(currentFiles) :
        currentFiles[i].id # id /\ currentFiles[i].status = "processing"

\* part_000:162-175: the settings ImageCard sends for a file
MutCardTargetFormat_AlwaysOriginal(file) == "original"
CardTargetFormat(file) ==
    IF file.originalFormat = <<"image", "jpeg">> \/ file.originalFormat = <<"image", "png">>
    THEN "original"
    ELSE "jpeg"
CardSettings(file, quality, title, description) ==
    [quality |-> quality, targetFormat |-> CardTargetFormat(file),
     metadata |-> [title |-> title, description |-> description]]

\* What the user may set on a card: the quality slider (part_000:246-253) and
\* the title and description inputs.
CardQualities == {60, 80}
CardTitles == {"Sunset"}
CardDescriptions == {""}

\* part_000:242, 260: the Process / Retry button is shown and enabled
MutCardEnabled_AnyStatus(file, isProcessing) == ~isProcessing
MutCardEnabled_Reprocess(file, isProcessing) ==
    /\ file.status \in {"uploaded", "failed", "completed"}
    /\ ~isProcessing
MutCardEnabled_IgnoreFlag(file, isProcessing) == file.status \in {"uploaded", "failed"}
CardEnabled(file, isProcessing) ==
    /\ file.status \in {"uploaded", "failed"}
    /\ ~isProcessing

\* part_001:135: the file list once a process request has started
ProcessingStarted(prevFiles, id) ==
    UpdateFileState(prevFiles, id, [status |-> "processing"], {"errorMessage"})

\* part_001:138-142: the call handleProcessImage awaits
CallOf(imageFile, settings) ==
    [id |-> imageFile.id, body |-> [imageFile |-> imageFile, settings |-> settings],
     stage |-> "sent", response |-> NoResponse, rivals |-> {}]

\* part_001:130-142: the calls in flight once one more has started.  Each call is
\* told the settings of the calls for its id that were in flight with it.
CallsWith(inFlight, call) ==
    LET same == {k \in 1..Len(inFlight) : inFlight[k].id = call.id}
    IN  Append([k \in 1..Len(inFlight) |->
                   IF k \in same
                   THEN [inFlight[k] EXCEPT !.rivals = @ \cup {call.body.settings}]
                   ELSE inFlight[k]],
               [call EXCEPT !.rivals = {inFlight[k].body.settings : k \in same}])

\* part_001:146-157: the file list once the response is there: the result for an
\* ok response, else status 'failed' and the message thrown
ThrownMessage(result) ==
    IF "errorMessage" \in DOMAIN result /\ result.errorMessage # << >>
    THEN result.errorMessage
    ELSE <<"Processing failed">>
ResponseApplied(prevFiles, id, response) ==
    IF ResponseOk(response)
    THEN UpdateFileState(prevFiles, id, response.body, {})
    ELSE UpdateFileState(prevFiles, id,
                         [status |-> "failed", errorMessage |-> ThrownMessage(response.body)],
                         {})

\* part_001:152-157: the file list once fetch itself has rejected
FetchRejected(prevFiles, id) ==
    UpdateFileState(prevFiles, id,
                    [status |-> "failed", errorMessage |-> <<"Failed to fetch">>], {})

\* What happens to a process request on the server: where it fails, if it does,
\* the size of the processed buffer, and the time it takes.
HandlerOutcomes ==
    {[kind |-> "fetch", error |-> ErrorOf(<<"Failed to fetch blob: ", "Not Found">>),
      ms |-> MaxTick, byteLength |-> 0],
     [kind |-> "ok", error |-> NotAnError, ms |-> MaxTick, byteLength |-> 400]}

\* part_000:18-128: the handler run from request to response, for one outcome
HandlerRun(body, outcome) ==
    LET started == Started(body, 0)
        prepared == Prepared(started, outcome.ms)
        encoded == Encoded(prepared, outcome.byteLength)
        putCall == ProcessPutCall(body.imageFile, encoded.targetFormat, outcome.byteLength)
    IN  IF started.pc = "done" THEN started
        ELSE IF outcome.kind = "fetch" THEN Failed(started, outcome.error, outcome.ms)
        ELSE IF prepared.pc = "done" THEN prepared
        ELSE IF outcome.kind = "encode" THEN Failed(prepared, outcome.error, outcome.ms)
        ELSE IF outcome.kind = "put" THEN Failed(encoded, outcome.error, outcome.ms)
        ELSE Completed(encoded, PutResult(putCall.path), outcome.ms)

\* the sequence s without its k-th element
Remove(s, k) == SubSeq(s, 1, k - 1) \o SubSeq(s, k + 1, Len(s))

\* handleFilesUploaded has not been called
NotCalled == [called |-> FALSE]

ClientInit ==
    /\ files = << >>
    /\ isProcessingAny = FALSE
    /\ pageError = << >>
    /\ crashed = FALSE
    /\ zone = "idle"
    /\ lastUploaded = NotCalled
    /\ requests = 0
    /\ calls = << >>

\* part_001:13-47: files are dropped; those onDrop accepts are posted to the
\* Upload Handler
ZoneDropWithin(budget) ==
    /\ ~crashed
    /\ zone = "idle"
    /\ upPc = "idle"
    /\ \E acceptedFiles \in SeqsUpTo(ZoneFiles, MaxFiles) :
         LET valid == ZoneValid(acceptedFiles)
         IN  /\ nanoidCount + Len(valid) <= budget
             /\ pageError' = ZoneError(acceptedFiles)
             /\ IF Len(valid) = 0
                THEN UNCHANGED <<zone, upFiles, upPc>>
                ELSE /\ zone' = "waiting"
                     /\ upFiles' = valid
                     /\ upPc' = "loop"
    /\ UNCHANGED <<upIdx, uploadedFilesInfo, errors, upBlobPath, nanoidCount, uploadPuts,
                   upResponse>>
    /\ UNCHANGED <<files, isProcessingAny, crashed, lastUploaded, requests, calls>>
    /\ UNCHANGED procVars

ZoneDrop == ZoneDropWithin(MaxRecords)

\* part_001:13-47: the same, with files enough for a drop of two after a record
\* has been uploaded
ZoneDropMore == ZoneDropWithin(MaxSent)

\* part_001:49-59, 114-122: the upload response is there.  A response that is not
\* ok sets the page error; the body of an ok response is handed to
\* handleFilesUploaded, whose updater throws if the body is not an array.
ZoneResponse ==
    /\ ~crashed
    /\ zone = "waiting"
    /\ upPc = "done"
    /\ IF ~ResponseOk(upResponse)
       THEN /\ pageError' = upResponse.body.error
            /\ UNCHANGED <<files, crashed, lastUploaded>>
       ELSE /\ lastUploaded' = upResponse.body
            /\ IF DOMAIN upResponse.body = {"array"}
               THEN /\ files' = MergeUploaded(files, upResponse.body.array)
                    /\ pageError' = << >>
                    /\ UNCHANGED crashed
               ELSE /\ crashed' = TRUE
                    /\ UNCHANGED <<files, pageError>>
    /\ zone' = "idle"
    /\ upPc' = "idle"
    /\ upFiles' = << >>
    /\ upIdx' = 1
    /\ uploadedFilesInfo' = << >>
    /\ errors' = << >>
    /\ upResponse' = NoResponse
    /\ UNCHANGED <<upBlobPath, nanoidCount, uploadPuts>>
    /\ UNCHANGED <<isProcessingAny, requests, calls>>
    /\ UNCHANGED procVars

\* part_001:130-142: handleProcessImage up to its fetch, for the file with this id
\* as the last render saw it
ProcessRequested(id, settings) ==
    /\ \E i \in 1..Len(files) :
         /\ files[i].id = id
         /\ \A j \in 1..(i - 1) : files[j].id # id
         /\ calls' = CallsWith(calls, CallOf(files[i], settings))
    /\ requests' = requests + 1
    /\ isProcessingAny' = TRUE
    /\ files' = ProcessingStarted(files, id)
    /\ UNCHANGED <<pageError, crashed, zone, lastUploaded>>
    /\ UNCHANGED <<upVars, procVars>>

\* part_000:162-177, 242-266: the Process / Retry button of a card is clicked
ClickProcess ==
    /\ ~crashed
    /\ requests < MaxCalls
    /\ \E i \in 1..Len(files), quality \in CardQualities, title \in CardTitles,
          description \in CardDescriptions :
         /\ CardEnabled(files[i], isProcessingAny)
         /\ ProcessRequested(files[i].id, CardSettings(files[i], quality, title, description))

\* part_001:130: handleProcessImage is called whatever the cards show (the flag
\* and the hidden button are no lock)
CallProcess ==
    /\ ~crashed
    /\ requests < MaxCalls
    /\ \E i \in 1..Len(files), quality \in CardQualities, title \in CardTitles,
          description \in CardDescriptions :
         ProcessRequested(files[i].id, CardSettings(files[i], quality, title, description))

\* part_001:114: handleFilesUploaded is called with records of which no two share
\* a storage reference
CallFilesUploadedFrom(records) ==
    /\ ~crashed
    /\ \E uploadedFiles \in SeqsUpTo(records, MaxFiles) :
         /\ \A i, j \in 1..Len(uploadedFiles) :
               i # j => uploadedFiles[i].blobUrl # uploadedFiles[j].blobUrl
         /\ Len(MergeUploaded(files, uploadedFiles)) <= MaxRecords
         /\ lastUploaded' = [array |-> uploadedFiles]
         /\ files' = MergeUploaded(files, uploadedFiles)
    /\ pageError' = << >>
    /\ UNCHANGED <<isProcessingAny, crashed, zone, requests, calls>>
    /\ UNCHANGED <<upVars, procVars>>

\* records of one image type, told apart by their storage references
CallFilesUploaded == CallFilesUploadedFrom(IncomingRecords)

\* one uploaded record of any of the accepted image types (route.ts:12)
CallTypedUploaded == CallFilesUploadedFrom(UploadedRecords)

\* part_000:18-128: the Process Handler answers a call
HandlerResponds ==
    /\ \E k \in 1..Len(calls), outcome \in HandlerOutcomes :
         /\ calls[k].stage = "sent"
         /\ calls' = [calls EXCEPT ![k].stage = "answered",
                                   ![k].response = HandlerRun(calls[k].body, outcome).response]
    /\ UNCHANGED <<files, isProcessingAny, pageError, crashed, zone, lastUploaded,
                   requests>>
    /\ UNCHANGED <<upVars, procVars>>

\* part_001:144-165: the response of a call is read and applied, and the flag
\* recomputed
ResponseArrives ==
    /\ ~crashed
    /\ \E k \in 1..Len(calls) :
         /\ calls[k].stage = "answered"
         /\ files' = ResponseApplied(files, calls[k].id, calls[k].response)
         /\ isProcessingAny' = StillProcessing(files', calls[k].id)
         /\ calls' = Remove(calls, k)
    /\ UNCHANGED <<pageError, crashed, zone, lastUploaded, requests>>
    /\ UNCHANGED <<upVars, procVars>>

\* part_001:138, 152-165: the fetch of a call rejects
FetchRejects ==
    /\ ~crashed
    /\ \E k \in 1..Len(calls) :
         /\ calls[k].stage = "sent"
         /\ files' = FetchRejected(files, calls[k].id)
         /\ isProcessingAny' = StillProcessing(files', calls[k].id)
         /\ calls' = Remove(calls, k)
    /\ UNCHANGED <<pageError, crashed, zone, lastUploaded, requests>>
    /\ UNCHANGED <<upVars, procVars>>

Init == UploadInit /\ ProcessInit /\ ClientInit

UploadNext ==
    \/ UploadPOST
    \/ UploadValidate
    \/ UploadPutOk
    \/ UploadPutFail
    \/ UploadRespond

ProcessNext ==
    \/ ProcessPOST
    \/ ProcessFetchOk
    \/ ProcessFetchFail
    \/ ProcessEncodeOk
    \/ ProcessEncodeFail
    \/ ProcessPutOk
    \/ ProcessPutFail

SpecUpload == Init /\ [][UploadNext]_vars

SpecProcess == Init /\ [][ProcessNext]_vars

\* the client as its user drives it: and clicks on the cards' buttons
ClientNext ==
    \/ ZoneDrop
    \/ UploadValidate
    \/ UploadPutOk
    \/ UploadPutFail
    \/ UploadRespond
    \/ ZoneResponse
    \/ ClickProcess
    \/ HandlerResponds
    \/ ResponseArrives
    \/ FetchRejects

SpecClient == Init /\ [][ClientNext]_vars

\* the client with its callbacks called freely: process requests overlap
FreeNext ==
    \/ ZoneDrop
    \/ UploadValidate
    \/ UploadPutOk
    \/ UploadPutFail
    \/ UploadRespond
    \/ ZoneResponse
    \/ CallProcess
    \/ HandlerResponds
    \/ ResponseArrives
    \/ FetchRejects

SpecFree == Init /\ [][FreeNext]_vars

\* the client with handleFilesUploaded called with any records of distinct
\* references, those already in the list among them
MergeNext ==
    \/ CallFilesUploaded
    \/ ClickProcess
    \/ HandlerResponds
    \/ ResponseArrives
    \/ FetchRejects

SpecMerge == Init /\ [][MergeNext]_vars

\* the cards of uploaded records of every accepted image type, processed
\* through the buttons they show
CardNext ==
    \/ CallTypedUploaded
    \/ ClickProcess
    \/ HandlerResponds
    \/ ResponseArrives
    \/ FetchRejects

SpecCard == Init /\ [][CardNext]_vars

\* the client as its user drives it, every request sent being answered or
\* rejected and every answer read
LiveNext ==
    \/ ZoneDropMore
    \/ UploadValidate
    \/ UploadPutOk
    \/ UploadPutFail
    \/ UploadRespond
    \/ ZoneResponse
    \/ ClickProcess
    \/ HandlerResponds
    \/ ResponseArrives
    \/ FetchRejects

SpecLive ==
    /\ Init
    /\ [][LiveNext]_vars
    /\ WF_vars(HandlerResponds)
    /\ WF_vars(ResponseArrives)

(***************************************************************************)
(* Claims about the Upload Handler (checked under SpecUpload).             *)
(***************************************************************************)
RECURSIVE IsSubSeq(_, _)
\* s is t with some elements left out
IsSubSeq(s, t) ==
    IF Len(s) = 0 THEN TRUE
    ELSE IF Len(t) = 0 THEN FALSE
    ELSE IF Head(s) = Head(t) THEN IsSubSeq(Tail(s), Tail(t))
    ELSE IsSubSeq(s, Tail(t))

\* the files the loop has finished with
FilesDone == SubSeq(upFiles, 1, upIdx - 1)

\* a file the handler has to reject, stated from the claim: a declared type outside
\* the four image types, or more than ten megabytes
MustReject(f) ==
    \/ f.type \notin {<<"image", "jpeg">>, <<"image", "png">>,
                      <<"image", "webp">>, <<"image", "avif">>}
    \/ f.size > 10485760

IsValidationError(e) == e.kind \in {"Unsupported file type", "File too large"}

(* C1: a file whose declared type is not jpeg, png, webp or avif, or whose size
   exceeds the ceiling, gets a rejection reason and never a storage write: every
   put issued is for a file that passed validation, and every rejected file the
   loop has finished with has its reason in the error list. *)
C1_RejectedNeverStored ==
    /\ \A i \in 1..Len(uploadPuts) : ~MustReject(uploadPuts[i].file)
    /\ upPc = "put" => ~MustReject(upFiles[upIdx])
    /\ Len(SelectSeq(errors, IsValidationError)) = Len(SelectSeq(FilesDone, MustReject))
    /\ \A i \in 1..Len(FilesDone) :
          MustReject(FilesDone[i]) =>
              \E j \in 1..Len(errors) :
                  /\ IsValidationError(errors[j])
                  /\ errors[j].name = FilesDone[i].name

\* a finished request whose first file is oversize and whose second file is stored
C1_Witness ==
    /\ upPc = "done"
    /\ Len(upFiles) = 2
    /\ upFiles[1].size > 10485760
    /\ upFiles[1].type = <<"image", "png">>
    /\ errors = <<ValidationError(upFiles[1], "size")>>
    /\ Len(uploadPuts) = 1
    /\ uploadPuts[1].file = upFiles[2]

(* C2: the response status follows from the per-file outcomes: 400 with an error
   body when no file produced a record (an empty file list included), 207 with
   uploadedFiles and uploadErrors when some file produced a record and some an
   error, 200 with just the records when every file produced one. *)
C2_StatusFromOutcomes ==
    upPc = "done" =>
        LET nRecords == Len(uploadedFilesInfo)
            nErrors == Len(errors)
        IN  /\ upResponse.status \in {200, 207, 400}
            /\ nRecords = 0 <=> upResponse.status = 400
            /\ (nRecords > 0 /\ nErrors > 0) <=> upResponse.status = 207
            /\ (nRecords > 0 /\ nRecords = Len(upFiles)) <=> upResponse.status = 200
            /\ upResponse.status = 400 => DOMAIN upResponse.body = {"error"}
            /\ upResponse.status = 207 =>
                  /\ DOMAIN upResponse.body = {"uploadedFiles", "uploadErrors"}
                  /\ upResponse.body.uploadedFiles = uploadedFilesInfo
                  /\ upResponse.body.uploadErrors = errors
            /\ upResponse.status = 200 => upResponse.body = [array |-> uploadedFilesInfo]

\* a partial success: one record, one error
C2_Witness ==
    /\ upPc = "done"
    /\ upResponse.status = 207
    /\ Len(upResponse.body.uploadedFiles) = 1
    /\ Len(upResponse.body.uploadErrors) = 1

(* C3: every record returned for an accepted file has status 'uploaded', empty
   metadata, a populated blobUrl, the name, size and type of the file that was
   stored under the record's id, and a non-empty id no other record of the batch
   has. *)
C3_RecordShape ==
    /\ \A i \in 1..Len(uploadedFilesInfo) :
          LET r == uploadedFilesInfo[i]
          IN  /\ r.status = "uploaded"
              /\ DOMAIN r.metadata = {}
              /\ "blobUrl" \in DOMAIN r /\ Len(r.blobUrl) > 0
              /\ Len(r.id) > 0
              /\ \E k \in 1..Len(uploadPuts) :
                    /\ uploadPuts[k].path = r.id
                    /\ uploadPuts[k].file.name = r.originalName
                    /\ uploadPuts[k].file.size = r.originalSize
                    /\ uploadPuts[k].file.type = r.originalFormat
              /\ \A j \in 1..Len(uploadedFilesInfo) : j # i => uploadedFilesInfo[j].id # r.id
    /\ upResponse.status = 200 => upResponse.body.array = uploadedFilesInfo
    /\ upResponse.status = 207 => upResponse.body.uploadedFiles = uploadedFilesInfo

\* a response with two records of files of the same name
C3_Witness ==
    /\ upResponse.status = 200
    /\ Len(upResponse.body.array) = 2
    /\ upResponse.body.array[1].originalName = upResponse.body.array[2].originalName

IsUploadFailed(e) == e.kind = "Failed to upload"
RecordId(r) == r.id
PutPath(p) == p.path
PutFile(p) == p.file
Passes(f) == ~MustReject(f)
Map(F(_), s) == [i \in 1..Len(s) |-> F(s[i])]

(* C4: the files of a batch are handled independently: each file the loop has
   finished with has exactly one outcome, a record or an error string, so
   records + errors = files; every file that passes validation has its put
   issued whatever happened to the files before it, each put ends in a record or
   a failed-upload error, and the records keep submission order. *)
C4_PerFileOutcome ==
    /\ Len(uploadedFilesInfo) + Len(errors) = upIdx - 1
    /\ upPc = "done" /\ Len(upFiles) > 0 =>
          Len(uploadedFilesInfo) + Len(errors) = Len(upFiles)
    /\ Map(PutFile, uploadPuts)
          = SelectSeq(FilesDone, Passes)
              \o (IF upPc = "put" THEN <<upFiles[upIdx]>> ELSE << >>)
    /\ Len(uploadPuts)
          = Len(uploadedFilesInfo) + Len(SelectSeq(errors, IsUploadFailed))
              + (IF upPc = "put" THEN 1 ELSE 0)
    /\ IsSubSeq(Map(RecordId, uploadedFilesInfo), Map(PutPath, uploadPuts))

\* the store fails on the first file and the second file is stored all the same
C4_Witness ==
    /\ upPc = "done"
    /\ Len(upFiles) = 2
    /\ errors = <<UploadFailedError(upFiles[1])>>
    /\ Len(uploadedFilesInfo) = 1
    /\ uploadedFilesInfo[1].originalName = upFiles[2].name
    /\ upFiles[1].name # upFiles[2].name

(***************************************************************************)
(* Claims about the Process Handler (checked under SpecProcess).           *)
(***************************************************************************)
\* the request this invocation was given, and what it carries
Request == proc.body
HasRecord == "imageFile" \in DOMAIN Request
HasSettings == "settings" \in DOMAIN Request
HasReference ==
    /\ HasRecord
    /\ "blobUrl" \in DOMAIN Request.imageFile
    /\ Request.imageFile.blobUrl # << >>
PreconditionsPass == HasRecord /\ HasSettings /\ HasReference
Responded == proc.pc = "done"
FetchSucceeded == Len(fetches) = 1 /\ fetches[1].result = "ok"

(* C5: a request that lacks the image record, the settings object or the record's
   storage reference is answered 400 with an error body, and no fetch, no encode
   and no storage write is performed for it. *)
C5_MissingInputRefused ==
    (proc.pc # "idle" /\ ~PreconditionsPass) =>
        /\ Responded
        /\ proc.response.status = 400
        /\ DOMAIN proc.response.body = {"error"}
        /\ fetches = << >>
        /\ encodes = << >>
        /\ processPuts = << >>

\* a request with the record and the settings whose record has no storage reference
C5_Witness ==
    /\ Responded
    /\ HasRecord /\ HasSettings
    /\ "blobUrl" \notin DOMAIN Request.imageFile
    /\ proc.response.status = 400

(* C6: once the preconditions pass, the response is 200 exactly when the returned
   record's status is 'completed' and 500 exactly when it is 'failed'; a request
   that did not get through fetch, format check, encode and storage write is
   answered 500 with status 'failed', a non-empty errorMessage and
   processingTimeMs set; no response carries 'processing', 'queued' or
   'uploaded'. *)
C6_FailureIsFailed ==
    (Responded /\ PreconditionsPass) =>
        LET r == proc.response.body
        IN  /\ proc.response.status \in {200, 500}
            /\ r.status \in {"completed", "failed"}
            /\ proc.response.status = 200 <=> r.status = "completed"
            /\ proc.response.status = 500 <=> r.status = "failed"
            /\ (\/ ~FetchSucceeded
                \/ encodes = << >>
                \/ processPuts = << >>) => r.status = "failed"
            /\ r.status = "failed" =>
                  /\ "errorMessage" \in DOMAIN r
                  /\ Len(r.errorMessage) > 0
                  /\ "processingTimeMs" \in DOMAIN r
                  /\ r.processingTimeMs = now - proc.startTime
                  /\ r.processingTimeMs >= 0

\* the storage write of the processed artifact failed, after some time
C6_Witness ==
    /\ Responded
    /\ Len(processPuts) = 1
    /\ proc.response.status = 500
    /\ proc.response.body.status = "failed"
    /\ proc.response.body.errorMessage = <<"Vercel Blob: access denied">>
    /\ proc.response.body.processingTimeMs > 0

\* the effective target format, stated from the claim
WantedFormat ==
    IF Request.settings.targetFormat # "original"
    THEN Request.settings.targetFormat
    ELSE CASE Request.imageFile.originalFormat = <<"image", "jpeg">> -> "jpeg"
           [] Request.imageFile.originalFormat = <<"image", "png">> -> "png"
           [] Request.imageFile.originalFormat = <<"image", "webp">> -> "webp"
           [] Request.imageFile.originalFormat = <<"image", "avif">> -> "avif"

(* C7: when the effective target format is not 'jpeg' or 'png' and the fetch of
   the raw blob succeeded, the request ends with status 'failed' and the
   unsupported-format message; no encode is run, no storage write is issued and
   the request sets no downloadUrl (the response has one only if the submitted
   record had it, and then that one). *)
C7_UnsupportedFormatFails ==
    (PreconditionsPass /\ WantedFormat \notin {"jpeg", "png"}) =>
        /\ encodes = << >>
        /\ processPuts = << >>
        /\ "downloadUrl" \notin DOMAIN proc.updatedImageFile
        /\ Responded =>
              /\ "downloadUrl" \in DOMAIN proc.response.body
                    <=> "downloadUrl" \in DOMAIN Request.imageFile
              /\ "downloadUrl" \in DOMAIN Request.imageFile =>
                    proc.response.body.downloadUrl = Request.imageFile.downloadUrl
        /\ FetchSucceeded =>
              /\ Responded
              /\ proc.response.status = 500
              /\ proc.response.body.status = "failed"
              /\ proc.response.body.errorMessage =
                    <<"Unsupported target format for MVP: ", WantedFormat,
                      ". Only jpeg and png are supported initially.">>

\* 'original' asked for a webp source
C7_Witness ==
    /\ Responded
    /\ PreconditionsPass
    /\ FetchSucceeded
    /\ Request.settings.targetFormat = "original"
    /\ Request.imageFile.originalFormat = <<"image", "webp">>
    /\ proc.response.body.status = "failed"

(* C8: for targetFormat 'original' the effective format is the subtype of the
   record's originalFormat, for any other targetFormat it is the requested
   format whatever the originalFormat is; the encoder, the path and the content
   type of the processed artifact use that format. *)
C8_EffectiveFormat ==
    (PreconditionsPass /\ FetchSucceeded) =>
        /\ Request.settings.targetFormat = "original" =>
              <<"image", proc.targetFormat>> = Request.imageFile.originalFormat
        /\ Request.settings.targetFormat # "original" =>
              proc.targetFormat = Request.settings.targetFormat
        /\ \A i \in 1..Len(encodes) : encodes[i].options.format = WantedFormat
        /\ \A i \in 1..Len(processPuts) :
              /\ processPuts[i].path =
                    <<"processed/", Request.imageFile.id, ".", WantedFormat>>
              /\ processPuts[i].contentType = <<"image", WantedFormat>>

\* jpeg asked for a png source, and stored as jpeg
C8_Witness ==
    /\ Responded
    /\ proc.response.status = 200
    /\ Request.settings.targetFormat = "jpeg"
    /\ Request.imageFile.originalFormat = <<"image", "png">>
    /\ processPuts[1].contentType = <<"image", "jpeg">>

QualityRange == (0 - QualitySlack)..(100 + QualitySlack)

\* level is round((100 - quality) / 10), a half rounded up, clamped to 0..9
\* (a level above 0 is not rounded up too far, a level below 9 not down too far)
IsClampedLevel(quality, level) ==
    /\ level \in 0..9
    /\ level > 0 => 10 * level - 5 <= 100 - quality
    /\ level < 9 => 100 - quality < 10 * level + 5

(* C9: the png compression level is clamp(round((100 - quality) / 10), 0, 9) for
   every integer quality: it lies in 0..9, does not grow with quality, is 0 for
   100, 3 for 70, 4 for 60 and 9 for 0, also outside 60..100; the png encoder is
   given that level, the jpeg encoder the requested quality unchanged. *)
C9_QualityMapping ==
    \* the mapping over the whole range does not depend on the state: it is
    \* evaluated once, before the request arrives
    /\ proc.pc = "idle" =>
          /\ \A q \in QualityRange :
                /\ PngCompressionLevel(q) \in 0..9
                /\ IsClampedLevel(q, PngCompressionLevel(q))
                /\ PngCompressionLevel(q) >= PngCompressionLevel(q + 1)
          /\ PngCompressionLevel(100) = 0
          /\ PngCompressionLevel(70) = 3
          /\ PngCompressionLevel(60) = 4
          /\ PngCompressionLevel(0) = 9
    /\ \A i \in 1..Len(encodes) :
          LET o == encodes[i].options
          IN  /\ o.format = "png" =>
                    /\ DOMAIN o = {"format", "compressionLevel"}
                    /\ IsClampedLevel(Request.settings.quality, o.compressionLevel)
              /\ o.format = "jpeg" =>
                    /\ DOMAIN o = {"format", "quality"}
                    /\ o.quality = Request.settings.quality

\* a png encoded at a quality between two levels, and completed
C9_Witness ==
    /\ Responded
    /\ proc.response.status = 200
    /\ Request.settings.quality = 65
    /\ encodes[1].options = [format |-> "png", compressionLevel |-> 4]

(* C10: on success compressionRatio is (1 - compressedSize / originalSize) * 100
   when originalSize > 0 and 0 when originalSize is 0; 1000 and 400 give 60; the
   ratio is negative when the processed artifact is larger than the original,
   and the record is 'completed' all the same. *)
C10_CompressionRatio ==
    (Responded /\ proc.response.status = 200) =>
        LET r == proc.response.body
            o == Request.imageFile.originalSize
            c == processPuts[1].byteLength
            ratio == r.compressionRatio
        IN  /\ r.status = "completed"
            /\ r.compressedSize = c
            /\ ratio.den > 0
            /\ o > 0 => ratio.num * o = 100 * (o - c) * ratio.den
            /\ o = 0 => ratio.num = 0
            /\ (o = 1000 /\ c = 400) => ratio = [num |-> 60, den |-> 1]
            /\ (o > 0 /\ c > o) => ratio.num < 0

\* a processed artifact half as large again as the original
C10_Witness ==
    /\ Responded
    /\ proc.response.status = 200
    /\ proc.response.body.status = "completed"
    /\ Request.imageFile.originalSize = 1000
    /\ proc.response.body.compressedSize = 1500
    /\ proc.response.body.compressionRatio = [num |-> 0 - 50, den |-> 1]

\* the fields the request sets in a record's metadata
MVP_METADATA == {"title", "description"}

(* C11: a 200 record of the Process Handler has status 'completed', has
   compressedSize, compressionRatio, downloadUrl and processingTimeMs, has the
   request's settings as processingSettings, and has a metadata object whose title
   and description are the request's while every other field of the submitted
   record's metadata is kept as it was. *)
C11_SuccessResult ==
    (Responded /\ proc.response.status = 200) =>
        LET r == proc.response.body
            submitted == Request.imageFile.metadata
            requested == Request.settings.metadata
        IN  /\ r.status = "completed"
            /\ {"compressedSize", "compressionRatio", "downloadUrl", "processingTimeMs"}
                   \subseteq DOMAIN r
            /\ r.compressedSize = processPuts[1].byteLength
            /\ r.downloadUrl = BlobUrl(processPuts[1].path)
            /\ r.processingTimeMs \in 0..(3 * MaxTick)
            /\ r.processingSettings = Request.settings
            /\ DOMAIN r.metadata =
                   (DOMAIN submitted \ MVP_METADATA) \cup (DOMAIN requested \cap MVP_METADATA)
            /\ \A k \in DOMAIN requested \cap MVP_METADATA : r.metadata[k] = requested[k]
            /\ \A k \in DOMAIN submitted \ MVP_METADATA : r.metadata[k] = submitted[k]

\* a record that had a title and an author is processed with a new title
C11_Witness ==
    /\ Responded
    /\ proc.response.status = 200
    /\ Request.imageFile.metadata = [title |-> "Old", author |-> "Ann"]
    /\ Request.settings.metadata = [title |-> "Sunset"]
    /\ proc.response.body.metadata = [title |-> "Sunset", author |-> "Ann"]

\* types.ts:22-25, 35: the fields of a record that upload sets for good
UploadFields == {"id", "originalName", "originalSize", "originalFormat", "blobUrl"}

(* C12: id, originalName, originalSize, originalFormat and blobUrl of a record
   never change after upload: every response of the Process Handler, 200 or 500,
   carries them as the submitted record had them, and no step of the client
   changes them in any record of its list. *)
C12_UploadFieldsKept ==
    [][/\ \A i \in 1..Len(files) :
            /\ i <= Len(files')
            /\ \A f \in UploadFields : files'[i][f] = files[i][f]
       /\ \A k \in 1..Len(calls') :
            calls'[k].stage = "answered" =>
                /\ calls'[k].response.status \in {200, 500}
                /\ \A f \in UploadFields :
                      calls'[k].response.body[f] = calls'[k].body.imageFile[f]]_vars

\* of two records one was processed and completed, the other failed
C12_Witness ==
    /\ Len(files) = 2
    /\ requests = 2
    /\ files[1].status = "completed"
    /\ files[2].status = "failed"
    /\ files[1].originalSize = 1000
    /\ files[1].compressedSize = 400
    /\ files[1].id = BlobPath(1, files[1].originalName)

\* the status changes of the records of the list in a step, as pairs
StatusChanges ==
    {<<files[i].status, files'[i].status>> :
        i \in {j \in 1..Len(files) : j <= Len(files') /\ files'[j].status # files[j].status}}

\* types.ts:26: no record of the list is 'queued'
NeverQueued == \A i \in 1..Len(files) : files[i].status # "queued"

(* C13 as stated: every status change of a record of the client list is
   uploaded -> processing, processing -> completed or processing -> failed, so
   that no record leaves 'completed' or 'failed', and no record is 'queued'. *)
C13_FailedIsTerminal ==
    [][/\ StatusChanges \subseteq {<<"uploaded", "processing">>,
                                   <<"processing", "completed">>,
                                   <<"processing", "failed">>}
       /\ NeverQueued']_vars

(* C13: every status change of a record of the client list is
   uploaded -> processing, failed -> processing (the card's Retry button),
   processing -> completed or processing -> failed; no record leaves 'completed',
   and no record is 'queued', for the clicks the cards permit. *)
C13_Lifecycle ==
    [][/\ StatusChanges \subseteq {<<"uploaded", "processing">>,
                                   <<"failed", "processing">>,
                                   <<"processing", "completed">>,
                                   <<"processing", "failed">>}
       /\ NeverQueued']_vars

\* the only record of the list failed and is processing again
C13_Witness ==
    /\ Len(files) = 1
    /\ requests = 2
    /\ files[1].status = "processing"

\* types.ts:33: a record has an errorMessage only if it is 'failed'
ErrorOnlyOnFailed(record) == "errorMessage" \in DOMAIN record => record.status = "failed"

(* C14: in every state of the client, no record of the list has an errorMessage
   unless its status is 'failed', retries of failed records included; and no
   record the Process Handler returns with 200 has one. *)
C14_ErrorOnlyOnFailed ==
    /\ \A i \in 1..Len(files) : ErrorOnlyOnFailed(files[i])
    /\ \A k \in 1..Len(calls) :
          (calls[k].stage = "answered" /\ calls[k].response.status = 200) =>
              ErrorOnlyOnFailed(calls[k].response.body)

(* C15: with process requests started only from an enabled card (flag false,
   status 'uploaded' or 'failed'), in every state of the client a record has a
   downloadUrl only if it is 'completed', and a compressedSize or a
   compressionRatio only if it is 'completed' or 'failed'. *)
C15_ResultFieldsOnlyAfterEnd ==
    \A i \in 1..Len(files) :
        /\ "downloadUrl" \in DOMAIN files[i] => files[i].status = "completed"
        /\ "compressedSize" \in DOMAIN files[i] => files[i].status \in {"completed", "failed"}
        /\ "compressionRatio" \in DOMAIN files[i] => files[i].status \in {"completed", "failed"}

\* of two records one has completed and has its downloadUrl, the other has failed
C15_Witness ==
    /\ Len(files) = 2
    /\ requests = 2
    /\ \E i, j \in 1..2 :
          /\ files[i].status = "completed"
          /\ "downloadUrl" \in DOMAIN files[i]
          /\ files[j].status = "failed"

\* the blobUrls of the records of a list
References(records) == {records[i].blobUrl : i \in 1..Len(records)}

\* the records of `incoming`, in order, whose blobUrl is none of `taken`
RECURSIVE Fresh(_, _)
Fresh(incoming, taken) ==
    IF Len(incoming) = 0 THEN << >>
    ELSE IF incoming[1].blobUrl \in taken
    THEN Fresh(Tail(incoming), taken)
    ELSE <<incoming[1]>> \o Fresh(Tail(incoming), taken)

\* handleFilesUploaded was called with an array in this step
MergeStep ==
    /\ "array" \in DOMAIN lastUploaded'
    /\ lastUploaded' # lastUploaded \/ Len(files') # Len(files)

NoSharedReference ==
    \A i, j \in 1..Len(files) : i # j => files[i].blobUrl # files[j].blobUrl

(* C16: handleFilesUploaded leaves the list as it was, followed by the incoming
   records, in order, whose blobUrl no record of the list had; an incoming record
   whose blobUrl a record of the list has is dropped.  With incoming arrays of
   pairwise distinct blobUrls, no two records of the list share a blobUrl. *)
C16_MergeByReference ==
    [][/\ MergeStep =>
            /\ SubSeq(files', 1, Len(files)) = files
            /\ SubSeq(files', Len(files) + 1, Len(files')) =
                   Fresh(lastUploaded'.array, References(files))
       /\ NoSharedReference']_vars

\* of two incoming records the first, already in the list and processed since, was
\* dropped and the second appended
C16_Witness ==
    /\ Len(files) = 2
    /\ "array" \in DOMAIN lastUploaded
    /\ Len(lastUploaded.array) = 2
    /\ lastUploaded.array[1].blobUrl = files[1].blobUrl
    /\ lastUploaded.array[2] = files[2]
    /\ files[1].status = "completed"

\* a call of handleProcessImage whose response is applied in this step
AppliedCalls ==
    {k \in 1..Len(calls) :
        /\ calls[k].stage = "answered"
        /\ calls' = Remove(calls, k)}

\* the record of the list with this id
RecordOf(records, id) == records[CHOOSE i \in 1..Len(records) : records[i].id = id]

(* C17: a process request first marks its record 'processing'; when the Process
   Handler has answered, 200 or 500, the client record becomes the prior record
   overwritten by every field of the response body, so that after a 500 it has the
   handler's status 'failed', errorMessage and processingTimeMs. *)
C17_ResponseOverwritesRecord ==
    [][/\ requests' # requests =>
            RecordOf(files', Last(calls').id).status = "processing"
       /\ \A k \in AppliedCalls :
            /\ calls[k].response.status \in {200, 500}
            /\ RecordOf(files', calls[k].id) =
                   Spread(RecordOf(files, calls[k].id), calls[k].response.body)]_vars

\* some record of the list is 'processing'
SomeProcessing == \E i \in 1..Len(files) : files[i].status = "processing"

(* C18: in every state of the client, whichever way process requests of different
   records interleave, isProcessingAny is true exactly when some record of the
   list is 'processing': it is true once a request has started, and once the
   request of a record has ended it tells whether another record is still
   'processing'. *)
C18_FlagTellsProcessing == isProcessingAny <=> SomeProcessing

\* of the requests of two records one has ended; the flag is set for the other
C18_Witness ==
    /\ Len(files) = 2
    /\ requests = 2
    /\ Len(calls) = 1
    /\ files[1].status = "completed"
    /\ files[2].status = "processing"
    /\ calls[1].id = files[2].id
    /\ isProcessingAny

\* the fields of a record that tell how its processing ended
OutcomeFields == {"status", "errorMessage", "downloadUrl", "compressedSize", "processingSettings"}

\* a call whose response is applied in this step, the last of calls for one record
\* that were in flight together with different quality
LastOfDoubleSubmit ==
    {k \in AppliedCalls :
        /\ \E s \in calls[k].rivals : s.quality # calls[k].body.settings.quality
        /\ \A j \in 1..Len(calls') : calls'[j].id # calls[k].id}

(* C19: when two process requests of one record with different quality were in
   flight together, then once the later response has been applied the client
   record has the status, errorMessage, downloadUrl, compressedSize and
   processingSettings of that response, and none of them left from the earlier
   one, whatever the order and the outcomes of the two. *)
C19_LastResponseWins ==
    [][\A k \in LastOfDoubleSubmit :
          LET record == RecordOf(files', calls[k].id)
              result == calls[k].response.body
          IN  \A f \in OutcomeFields :
                 /\ f \in DOMAIN record <=> f \in DOMAIN result
                 /\ f \in DOMAIN result => record[f] = result[f]]_vars

\* the UploadZone receives a 207 response in this step
PartialUploadReceived ==
    /\ zone = "waiting"
    /\ zone' = "idle"
    /\ upResponse.status = 207

(* C20: when the Upload Handler answers 207 with {uploadedFiles, uploadErrors}, the
   UploadZone hands the uploaded records to handleFilesUploaded, and after the
   merge every record of uploadedFiles whose blobUrl the list did not have is in
   the list, after the records that were there, with status 'uploaded'. *)
C20_PartialUploadMerged ==
    [][PartialUploadReceived =>
          LET uploaded == upResponse.body.uploadedFiles
          IN  /\ ~crashed'
              /\ files' = files \o Fresh(uploaded, References(files))
              /\ \A n \in 1..Len(uploaded) :
                    \E i \in 1..Len(files') :
                       /\ files'[i].blobUrl = uploaded[n].blobUrl
                       /\ i > Len(files) => files'[i].status = "uploaded"]_vars

\* the record at this place of the list is 'processing', or has ended
IsProcessing(i) == i <= Len(files) /\ files[i].status = "processing"
HasEnded(i) == i <= Len(files) /\ files[i].status \in {"completed", "failed"}

(* C21: with every process request answered or rejected, every record that is
   'processing' is 'completed' or 'failed' later on, the flag isProcessingAny is
   false whenever no request is in flight, and a flag that is true is false later
   on. *)
C21_ProcessingEnds ==
    /\ \A i \in 1..MaxSent : IsProcessing(i) ~> HasEnded(i)
    /\ [](calls = << >> => ~isProcessingAny)
    /\ isProcessingAny ~> ~isProcessingAny

\* the calls in flight for the record with this id, and those of them the Process
\* Handler has not answered yet (their write of the processed artifact may be
\* pending)
InFlight(id) == {k \in 1..Len(calls) : calls[k].id = id}
Unanswered(id) == {k \in InFlight(id) : calls[k].stage = "sent"}

(* C22: with process requests started only from an enabled card (flag false,
   status 'uploaded' or 'failed'), in every state at most one process request is
   in flight over the whole list: no record has two requests in flight, none has
   more than one write of a processed artifact pending, and a card is enabled
   only while no request is in flight. *)
C22_OneRequestInFlight ==
    /\ Len(calls) <= 1
    /\ \A i \in 1..Len(files) :
          /\ Cardinality(InFlight(files[i].id)) <= 1
          /\ Cardinality(Unanswered(files[i].id)) <= 1
          /\ (files[i].status \in {"uploaded", "failed"} /\ ~isProcessingAny) =>
                calls = << >>
    /\ Cardinality({i \in 1..Len(files) : files[i].status = "processing"}) <= 1

\* a request is in flight for one record while the card of another, still
\* 'uploaded', is disabled
C22_Witness ==
    /\ Len(files) = 2
    /\ Len(calls) = 1
    /\ calls[1].id = files[1].id
    /\ calls[1].stage = "sent"
    /\ files[2].status = "uploaded"
    /\ isProcessingAny

\* part_000:46-47, 119-126: the response the Process Handler gives a request
\* whose effective target format fails its supported-format check
FormatRefused(call) ==
    /\ call.stage = "answered"
    /\ ~ResponseOk(call.response)
    /\ "errorMessage" \in DOMAIN call.response.body
    /\ call.response.body.errorMessage =
          ErrorMessage(UnsupportedFormatError(
              EffectiveFormat(call.body.imageFile, call.body.settings)))

(* C23: every process request a card sends, for an uploaded record of any of
   the four accepted image types, asks for 'original' only when the record is
   image/jpeg or image/png and for 'jpeg' otherwise; its effective target
   format is 'jpeg' or 'png', passes the Process Handler's supported-format
   check, and no answer to it is the handler's unsupported-format failure. *)
C23_CardFormatSupported ==
    \A k \in 1..Len(calls) :
        LET imageFile == calls[k].body.imageFile
            settings == calls[k].body.settings
        IN  /\ imageFile.originalFormat \in ALLOWED_MIME_TYPES
            /\ settings.targetFormat = "original" <=>
                  imageFile.originalFormat \in {<<"image", "jpeg">>, <<"image", "png">>}
            /\ settings.targetFormat # "original" => settings.targetFormat = "jpeg"
            /\ EffectiveFormat(imageFile, settings) \in {"jpeg", "png"}
            /\ SupportedFormat(EffectiveFormat(imageFile, settings))
            /\ ~FormatRefused(calls[k])

\* the Process Handler has answered 200 to the request of an image/avif record,
\* sent with target format 'jpeg'
C23_Witness ==
    \E k \in 1..Len(calls) :
        /\ calls[k].body.imageFile.originalFormat = <<"image", "avif">>
        /\ calls[k].body.settings.targetFormat = "jpeg"
        /\ calls[k].stage = "answered"
        /\ ResponseOk(calls[k].response)

=============================================================================
